---- MODULE Spec2Model ----
(***************************************************************************)
(* vite-plugin-v8-bytecode: the build orchestrator (bytecodePlugin and its *)
(* hooks configResolved, renderChunk, generateBundle) as a state machine.  *)
(* Source text is modelled character by character as TLA+ strings; the     *)
(* regular expressions and node:path functions the plugin calls are        *)
(* operators computed the way the JavaScript engine computes them.         *)
(***************************************************************************)
EXTENDS Integers, Sequences, FiniteSets, TLC

(***************************************************************************)
(* Strings.                                                                *)
(***************************************************************************)
CharAt(s, i) == SubSeq(s, i, i)

StartsWithAt(s, i, t) ==
    /\ i >= 1
    /\ i + Len(t) - 1 <= Len(s)
    /\ SubSeq(s, i, i + Len(t) - 1) = t

startsWith(s, t) == StartsWithAt(s, 1, t)

\* \s of the regular expression engine, over the characters the model uses
IsSpace(c) == c \in {" ", "\n", "\t", "\r"}

\* position of the first occurrence of t in s at or after i, 0 when none
RECURSIVE IndexOfFrom(_, _, _)
IndexOfFrom(s, t, i) ==
    IF i + Len(t) - 1 > Len(s) THEN 0
    ELSE IF StartsWithAt(s, i, t) THEN i
    ELSE IndexOfFrom(s, t, i + 1)

indexOf(s, t) == IndexOfFrom(s, t, 1)

includes(s, t) == indexOf(s, t) > 0

\* position of the last occurrence of the one-character string c in s, 0 when none
RECURSIVE LastIndexOfChar(_, _, _)
LastIndexOfChar(s, c, i) ==
    IF i < 1 THEN 0
    ELSE IF CharAt(s, i) = c THEN i
    ELSE LastIndexOfChar(s, c, i - 1)

\* number of (non-overlapping) occurrences of t in s
RECURSIVE CountFrom(_, _, _)
CountFrom(s, t, i) ==
    LET p == IndexOfFrom(s, t, i)
    IN IF p = 0 THEN 0 ELSE 1 + CountFrom(s, t, p + Len(t))

Count(s, t) == CountFrom(s, t, 1)

\* the segments of s between the separator character sep
RECURSIVE SplitFrom(_, _, _, _)
SplitFrom(s, sep, i, cur) ==
    IF i > Len(s) THEN <<cur>>
    ELSE IF CharAt(s, i) = sep THEN <<cur>> \o SplitFrom(s, sep, i + 1, "")
    ELSE SplitFrom(s, sep, i + 1, cur \o CharAt(s, i))

Split(s, sep) == SplitFrom(s, sep, 1, "")

RECURSIVE Join(_, _)
Join(segs, sep) ==
    IF Len(segs) = 0 THEN ""
    ELSE IF Len(segs) = 1 THEN segs[1]
    ELSE segs[1] \o sep \o Join(Tail(segs), sep)

(***************************************************************************)
(* node:path (posix) and src/utils.ts.                                     *)
(***************************************************************************)
\* path.basename(p)
basename(p) ==
    LET k == LastIndexOfChar(p, "/", Len(p))
    IN SubSeq(p, k + 1, Len(p))

\* path.dirname(p) of a relative path
dirname(p) ==
    LET k == LastIndexOfChar(p, "/", Len(p))
    IN IF k = 0 THEN "." ELSE IF k = 1 THEN "/" ELSE SubSeq(p, 1, k - 1)

\* the segments of a relative path once resolved against the working
\* directory: "." and empty segments vanish
RECURSIVE PathSegments(_)
PathSegments(segs) ==
    IF Len(segs) = 0 THEN <<>>
    ELSE IF segs[1] \in {"", "."} THEN PathSegments(Tail(segs))
    ELSE <<segs[1]>> \o PathSegments(Tail(segs))

RECURSIVE CommonPrefixLen(_, _)
CommonPrefixLen(a, b) ==
    IF Len(a) = 0 \/ Len(b) = 0 \/ a[1] # b[1] THEN 0
    ELSE 1 + CommonPrefixLen(Tail(a), Tail(b))

\* path.relative(from, to), both relative to the same working directory
relative(from, to) ==
    LET f == PathSegments(Split(from, "/"))
        t == PathSegments(Split(to, "/"))
        n == CommonPrefixLen(f, t)
        ups == [i \in 1..(Len(f) - n) |-> ".."]
    IN Join(ups \o SubSeq(t, n + 1, Len(t)), "/")

\* normalizePath(p): p.replace(/\\/g, "/")
RECURSIVE normalizePath(_)
normalizePath(p) ==
    IF Len(p) = 0 THEN ""
    ELSE (IF Head(p) = "\\" THEN "/" ELSE Head(p)) \o normalizePath(Tail(p))

\* toRelativePath without the "./" it puts before a path that has no dot
toRelativePath_Bare(from, to) == relative(dirname(to), from)

\* toRelativePath(from, to)
toRelativePath(from, to) ==
    LET relativePath == relative(dirname(to), from)
    IN IF startsWith(relativePath, ".") THEN relativePath
       ELSE "./" \o relativePath

(***************************************************************************)
(* bytecodeRE: new RegExp(`require\\(\\S*(?=(${pattern})\\S*\\))`, "g"),     *)
(* pattern the alternation (n1)|(n2)|... of the base file names of the     *)
(* non-entry candidate chunks.  The names enter the pattern unescaped, so  *)
(* a "." of a file name is the wildcard of the regular expression.         *)
(***************************************************************************)
\* one pattern character against one character of the text
RegexCharMatches(p, c) ==
    IF p = "." THEN c \notin {"\n", "\r"} ELSE p = c

\* the alternative `name` matches the text at position j
RECURSIVE AltMatchesFrom(_, _, _, _)
AltMatchesFrom(code, j, name, k) ==
    IF k > Len(name) THEN TRUE
    ELSE IF j + k - 1 > Len(code) THEN FALSE
    ELSE IF ~RegexCharMatches(CharAt(name, k), CharAt(code, j + k - 1)) THEN FALSE
    ELSE AltMatchesFrom(code, j, name, k + 1)

AltMatchesAt(code, j, name) == AltMatchesFrom(code, j, name, 1)

\* \S*\) matches at position p: a ")" follows with no white space before it
RECURSIVE LookaheadTail(_, _)
LookaheadTail(code, p) ==
    IF p > Len(code) THEN FALSE
    ELSE IF CharAt(code, p) = ")" THEN TRUE
    ELSE IF IsSpace(CharAt(code, p)) THEN FALSE
    ELSE LookaheadTail(code, p + 1)

\* (?=(pattern)\S*\)) at position j: the index of the first alternative, in
\* pattern order, for which the whole lookahead matches; 0 when none does
RECURSIVE LookaheadFrom(_, _, _, _)
LookaheadFrom(code, j, names, a) ==
    IF a > Len(names) THEN 0
    ELSE IF /\ AltMatchesAt(code, j, names[a])
            /\ LookaheadTail(code, j + Len(names[a])) THEN a
    ELSE LookaheadFrom(code, j, names, a + 1)

Lookahead(code, j, names) == LookaheadFrom(code, j, names, 1)

\* the end of the longest run of non-space characters starting at p
RECURSIVE NonSpaceRunEnd(_, _)
NonSpaceRunEnd(code, p) ==
    IF p > Len(code) \/ IsSpace(CharAt(code, p)) THEN p
    ELSE NonSpaceRunEnd(code, p + 1)

\* \S* is greedy: it gives back one character at a time, from position j
\* down to lo, until the lookahead matches; 0 when it never does
RECURSIVE GreedyBacktrack(_, _, _, _)
GreedyBacktrack(code, j, lo, names) ==
    IF j < lo THEN 0
    ELSE IF Lookahead(code, j, names) # 0 THEN j
    ELSE GreedyBacktrack(code, j - 1, lo, names)

NoMatch == [index |-> 0, prefix |-> "", chunkName |-> "", lastIndex |-> 1]

\* bytecodeRE.exec(code) with lastIndex = from (positions count from 1):
\* index is where "require(" starts, prefix is match[0], chunkName is
\* match[1], lastIndex is where the next exec starts
RECURSIVE bytecodeREexec(_, _, _)
bytecodeREexec(code, from, names) ==
    LET i == IndexOfFrom(code, "require(", from)
    IN IF i = 0 THEN NoMatch
       ELSE LET lo == i + Len("require(")
                j == GreedyBacktrack(code, NonSpaceRunEnd(code, lo), lo, names)
            IN IF j = 0 THEN bytecodeREexec(code, i + 1, names)
               ELSE [index |-> i,
                     prefix |-> SubSeq(code, i, j - 1),
                     chunkName |->
                        SubSeq(code, j,
                               j + Len(names[Lookahead(code, j, names)]) - 1),
                     lastIndex |-> j]

\* while ((match = bytecodeRE.exec(_code))): the matches in the order found
RECURSIVE bytecodeREmatches(_, _, _)
bytecodeREmatches(code, from, names) ==
    LET match == bytecodeREexec(code, from, names)
    IN IF match.index = 0 THEN <<>>
       ELSE <<match>> \o bytecodeREmatches(code, match.lastIndex, names)

\* MagicString: s.overwrite(match.index, match.index + len,
\* prefix + chunkName + "c") for every match, then s.toString().  The
\* overwritten spans lie one after the other (each match starts at or after
\* the lastIndex of the one before and is longer than a file name), so the
\* result is the text with the spans replaced from the last to the first.
RECURSIVE overwriteAll(_, _)
overwriteAll(code, matches) ==
    IF Len(matches) = 0 THEN code
    ELSE LET match == matches[Len(matches)]
             len == Len(match.prefix) + Len(match.chunkName)
             done == SubSeq(code, 1, match.index - 1)
                        \o match.prefix \o match.chunkName \o "c"
                        \o SubSeq(code, match.index + len, Len(code))
         IN overwriteAll(done, SubSeq(matches, 1, Len(matches) - 1))

\* lines 181-201: the code of a chunk after the require() rewrite; names is
\* nonEntryChunks, and bytecodeRE is null when it is empty
rewriteRequires(code, names) ==
    IF Len(names) = 0 THEN code
    ELSE overwriteAll(code, bytecodeREmatches(code, 1, names))

(***************************************************************************)
(* The compiler as the orchestrator sees it: compileToBytecode(code) wraps *)
(* the code in the module wrapper and returns the cache data the VM made   *)
(* of it, or throws when the VM made none.                                 *)
(***************************************************************************)
wrapInModuleWrapper(code) ==
    "(function (exports, require, module, __filename, __dirname) { "
        \o code \o "\n});"

\* the buffer a successful compileToBytecode(code) returns
compileToBytecode(code) == [cachedData |-> wrapInModuleWrapper(code)]

\* the error of a compileToBytecode call for which the VM made no cache data
CompileError(name) ==
    [message |-> "Failed to generate bytecode: cachedData is undefined",
     chunk |-> name]

\* getBytecodeLoaderCode(): the fixed text of the loader program
getBytecodeLoaderCode == "<bytecode loader program>"

(***************************************************************************)
(* Constants of bytecodePlugin.                                            *)
(***************************************************************************)
useStrict == "\"use strict\";"
bytecodeModuleLoader == "bytecode-loader.cjs"

Undefined == [kind |-> "undefined"]
Str(v) == [kind |-> "string", value |-> v]
Arr(v) == [kind |-> "array", value |-> v]
Bool(v) == [kind |-> "boolean", value |-> v]

\* const { chunkAlias = [] } = options;
\* _chunkAlias = Array.isArray(chunkAlias) ? chunkAlias : [chunkAlias]
normalizeChunkAlias(chunkAlias) ==
    IF chunkAlias.kind = "undefined" THEN <<>>
    ELSE IF chunkAlias.kind = "array" THEN chunkAlias.value
    ELSE <<chunkAlias.value>>

\* const { removeBundleJS = true } = options
defaultRemoveBundleJS(opt) ==
    IF opt.kind = "undefined" THEN TRUE ELSE opt.value

\* const { protectedStrings = [] } = options
defaultProtectedStrings(opt) ==
    IF opt.kind = "undefined" THEN <<>> ELSE opt.value

\* isBytecodeChunk matching an alias that only begins the chunk's name
isBytecodeChunk_Prefix(aliases, chunkName) ==
    \/ Len(aliases) = 0
    \/ \E k \in 1..Len(aliases) : startsWith(chunkName, aliases[k])

\* isBytecodeChunk(chunkName) over the closure's _chunkAlias
isBytecodeChunk(aliases, chunkName) ==
    \/ Len(aliases) = 0
    \/ \E k \in 1..Len(aliases) : aliases[k] = chunkName

(***************************************************************************)
(* The build pipeline's side of the interface: the output bundle handed to *)
(* generateBundle (file name -> chunk or asset descriptor), the module     *)
(* info lookup, and the configuration handed to configResolved.            *)
(***************************************************************************)
MainFile == "main.js"
LibFile == "sub/lib.js"
DepFile == "sub/b.js"
ExternalId == "fs"

\* Object.keys(output) lists the chunks in this order, then the assets
ChunkFiles == <<MainFile, LibFile, DepFile>>
ChunkFileSet == {MainFile, LibFile, DepFile}
ModuleIds == ChunkFileSet \cup {ExternalId}

\* chunk.name of the chunk written to file f
ChunkNameOf(f) ==
    CASE f = MainFile -> "main"
      [] f = LibFile -> "lib"
      [] f = DepFile -> "b"

\* the specifier by which the code of chunk `from` requires `to`
RequireSpecifier(from, to) ==
    LET rel == relative(dirname(from), to)
    IN IF to = ExternalId THEN to
       ELSE IF startsWith(rel, "..") THEN rel
       ELSE "./" \o rel

RequireCall(from, to) == "require(\"" \o RequireSpecifier(from, to) \o "\")"

DirectiveText(directive) ==
    CASE directive = "double" -> "\"use strict\";"
      [] directive = "single" -> "'use strict';"
      [] directive = "none" -> ""

RECURSIVE ConcatAll(_, _)
ConcatAll(stmts, end) ==
    IF Len(stmts) = 0 THEN ""
    ELSE stmts[1] \o end \o ConcatAll(Tail(stmts), end)

\* the text the pipeline renders for a chunk: the strict-mode directive, one
\* require per static import, one deferred require per dynamic import, and
\* the chunk's own statement; minified output has no white space
HostChunkCode(f, imps, dyns, style) ==
    LET stmts == [k \in 1..Len(imps) |-> RequireCall(f, imps[k])]
                 \o [k \in 1..Len(dyns) |->
                        "lazy(()=>" \o RequireCall(f, dyns[k]) \o ")"]
        d == DirectiveText(style.directive)
    IN IF style.minified
       THEN d \o (IF Len(stmts) = 0 THEN "" ELSE Join(stmts, ",") \o ";")
              \o "run();"
       ELSE (IF d = "" THEN "" ELSE d \o "\n")
              \o ConcatAll(stmts, ";\n") \o "run();\n"

HostChunk(f, isEntry, imps, dyns, style) ==
    [type |-> "chunk", fileName |-> f, name |-> ChunkNameOf(f),
     isEntry |-> isEntry, code |-> HostChunkCode(f, imps, dyns, style),
     imports |-> imps, dynamicImports |-> dyns]

HostAsset(f) ==
    [type |-> "asset", fileName |-> f, name |-> "", isEntry |-> FALSE,
     code |-> "", imports |-> <<>>, dynamicImports |-> <<>>]

NoInfo == [found |-> FALSE, importers |-> <<>>, dynamicImporters |-> <<>>,
           isExternal |-> FALSE]

\* the files of `files` (in order) whose list lists[f] holds id
RECURSIVE FilesListing(_, _, _)
FilesListing(files, lists, id) ==
    IF Len(files) = 0 THEN <<>>
    ELSE (IF \E k \in 1..Len(lists[files[1]]) : lists[files[1]][k] = id
          THEN <<files[1]>> ELSE <<>>)
         \o FilesListing(Tail(files), lists, id)

\* this.getModuleInfo: the external module is always known; the chunk file
\* names are known to the lookup ("graph") or not ("none")
HostModuleInfo(mode, imp, dyn) ==
    [id \in ModuleIds |->
        IF id = ExternalId
        THEN [found |-> TRUE, importers |-> FilesListing(ChunkFiles, imp, id),
              dynamicImporters |-> <<>>, isExternal |-> TRUE]
        ELSE IF mode = "none" THEN NoInfo
        ELSE [found |-> TRUE,
              importers |-> FilesListing(ChunkFiles, imp, id),
              dynamicImporters |-> FilesListing(ChunkFiles, dyn, id),
              isExternal |-> FALSE]]

HostBundle(entries, imp, dyn, style, loaderAsset, mode) ==
    [keys |-> ChunkFiles
                \o (IF loaderAsset THEN <<bytecodeModuleLoader>> ELSE <<>>),
     files |-> [f \in ChunkFileSet
                    \cup (IF loaderAsset THEN {bytecodeModuleLoader} ELSE {})
                  |-> IF f \in ChunkFileSet
                      THEN HostChunk(f, f \in entries, imp[f], dyn[f], style)
                      ELSE HostAsset(f)],
     info |-> HostModuleInfo(mode, imp, dyn)]

Styles ==
    {[directive |-> "double", minified |-> FALSE],
     [directive |-> "double", minified |-> TRUE],
     [directive |-> "single", minified |-> FALSE],
     [directive |-> "none", minified |-> FALSE]}

PlainStyle == [directive |-> "double", minified |-> FALSE]

EntrySets == {{MainFile}, {MainFile, LibFile}}

StaticImports ==
    {[f \in ChunkFileSet |->
        CASE f = MainFile -> m [] f = LibFile -> l [] f = DepFile -> d] :
     m \in {<<>>, <<LibFile>>, <<DepFile>>, <<LibFile, DepFile>>,
            <<ExternalId, LibFile>>},
     l \in {<<>>, <<DepFile>>},
     d \in {<<>>, <<LibFile>>}}

DynamicImports ==
    {[f \in ChunkFileSet |-> IF f = LibFile THEN l ELSE <<>>] :
     l \in {<<>>, <<DepFile>>}}

\* the bundles the pipeline may hand over
Bundles ==
    {HostBundle(e, imp, dyn, PlainStyle, FALSE, mode) :
        e \in EntrySets, imp \in StaticImports, dyn \in DynamicImports,
        mode \in {"none", "graph"}}
    \cup
    {HostBundle(e, imp, dyn, style, asset, "none") :
        e \in EntrySets,
        imp \in {s \in StaticImports :
                    s[MainFile] = <<LibFile, DepFile>> /\ s[DepFile] = <<>>},
        dyn \in {s \in DynamicImports : s[LibFile] = <<>>},
        style \in Styles, asset \in BOOLEAN}

MaxOutputs == 2
MaxFailures == 1

Formats == {"cjs", "es", "iife"}

FormatLists(n) == UNION {[1..k -> Formats] : k \in 0..n}

\* resolveBuildOutputs(outputs, libOptions) of src/utils.ts
resolveBuildOutputs(outputs, libOptions) ==
    IF libOptions.kind # "undefined" /\ outputs.kind # "array"
    THEN Arr(libOptions.value)
    ELSE outputs

\* the configurations the pipeline may resolve: build.rollupOptions.output is
\* absent, one output or an array of outputs; build.lib is false or names
\* its formats (none when the library options give no formats)
Configs ==
    [useInRenderer : BOOLEAN,
     output : {Undefined} \cup {Str(f) : f \in Formats}
                \cup {Arr(s) : s \in FormatLists(MaxOutputs) \ {<<>>}},
     lib : {Undefined}]
    \cup
    [useInRenderer : {FALSE},
     output : {Undefined},
     lib : {Arr(s) : s \in FormatLists(MaxOutputs)}]

\* the formats of the outputs the pipeline generates under a configuration
HostFormats(config) ==
    LET r == resolveBuildOutputs(config.output, config.lib)
    IN IF r.kind = "undefined" THEN {"es"}
       ELSE IF r.kind = "string" THEN {r.value}
       ELSE {r.value[k] : k \in 1..Len(r.value)}

OptionsDomain ==
    [chunkAlias : {Undefined, Arr(<<>>), Str("b"), Arr(<<"b">>),
                   Arr(<<"main">>), Arr(<<"lib">>), Arr(<<"main", "b">>),
                   Arr(<<"lib", "b">>), Arr(<<"mai", "lib.js">>)},
     removeBundleJS : {Undefined, Bool(TRUE), Bool(FALSE)},
     protectedStrings : {Undefined, Arr(<<"k">>)}]

VARIABLES
    plugin,             \* what bytecodePlugin returned: "unset", "null", "plugin"
    env,                \* process.env.NODE_ENV seen by bytecodePlugin
    options,            \* the options bytecodePlugin was called with
    supported,          \* the closure's supported
    warnings,           \* the logger.warn calls made so far
    format,             \* the format of the output being generated
    input,              \* the bundle as the pipeline handed it over
    rendered,           \* what renderChunk returned for each chunk
    output,             \* the bundle object: file name -> descriptor
    emitted,            \* the this.emitFile calls made so far
    pc,                 \* where the build stands
    idx,                \* the next element of bundles.map
    jobs,               \* the callbacks suspended at their await, in order
    errors,             \* the rejections of the callbacks, in order
    bytecodeChunkCount, \* the counter of generateBundle
    thrown,             \* the error generateBundle rejected with
    dummyBytecode,      \* the compiler's cached buffer of the empty script
    buffers,            \* the outcomes of the compileToBytecode calls so far
    call,               \* a call of a utility or transform function
    ret                 \* what that call returned

pluginVars == <<plugin, env, options, supported, warnings, format, input,
                rendered, output, emitted, pc, idx, jobs, errors,
                bytecodeChunkCount, thrown>>

\* the state of the compiler module and of a call of a pure function
unitVars == <<dummyBytecode, buffers, call, ret>>

vars == <<pluginVars, unitVars>>

NoOptions == [chunkAlias |-> Undefined, removeBundleJS |-> Undefined,
              protectedStrings |-> Undefined]

\* the constants of the closure, fixed when bytecodePlugin returns
chunkAliasList == normalizeChunkAlias(options.chunkAlias)
removeBundleJS == defaultRemoveBundleJS(options.removeBundleJS)
protectedStrings == defaultProtectedStrings(options.protectedStrings)

NoBundle == [keys |-> <<>>, files |-> <<>>, info |-> <<>>]
NoError == [message |-> "", chunk |-> ""]

NoCall == [fn |-> "none"]

\* no plugin built yet
InitPlugin ==
    /\ plugin = "unset"
    /\ env = ""
    /\ options = NoOptions
    /\ supported = FALSE
    /\ warnings = <<>>
    /\ format = ""
    /\ input = NoBundle
    /\ rendered = <<>>
    /\ output = <<>>
    /\ emitted = <<>>
    /\ pc = "load"
    /\ idx = 0
    /\ jobs = <<>>
    /\ errors = <<>>
    /\ bytecodeChunkCount = 0
    /\ thrown = NoError

\* the compiler module just loaded, no function called
InitUnits ==
    /\ dummyBytecode = Undefined
    /\ buffers = <<>>
    /\ call = NoCall
    /\ ret = Undefined

Init == InitPlugin /\ InitUnits

(***************************************************************************)
(* bytecodePlugin(options)                                                 *)
(***************************************************************************)
bytecodePlugin ==
    /\ pc = "load"
    /\ \E nodeEnv \in {"production", "development"}, opts \in OptionsDomain :
        /\ env' = nodeEnv
        /\ IF nodeEnv # "production"
           THEN /\ plugin' = "null"
                /\ pc' = "done"
                /\ UNCHANGED options
           ELSE /\ plugin' = "plugin"
                /\ pc' = "config"
                /\ options' = opts
    /\ UNCHANGED <<supported, warnings, format, input, rendered, output,
                   emitted, idx, jobs, errors, bytecodeChunkCount, thrown>>
    /\ UNCHANGED unitVars

(***************************************************************************)
(* configResolved(config)                                                  *)
(***************************************************************************)
\* the logger.warn calls of one configResolved call
configWarnings(config) ==
    LET resolvedOutputs == resolveBuildOutputs(config.output, config.lib)
    IN IF config.useInRenderer THEN <<"renderer">>
       ELSE IF resolvedOutputs.kind = "undefined" THEN <<>>
       ELSE IF resolvedOutputs.kind = "string"
       THEN (IF resolvedOutputs.value = "es" THEN <<"es">> ELSE <<>>)
       ELSE IF resolvedOutputs.value[1] = "es" THEN <<"es">> ELSE <<>>

\* the value configResolved leaves in supported
configSupported(was, config) ==
    LET resolvedOutputs == resolveBuildOutputs(config.output, config.lib)
    IN IF config.useInRenderer \/ resolvedOutputs.kind = "undefined" THEN was
       ELSE IF resolvedOutputs.kind = "string"
       THEN resolvedOutputs.value = "cjs"
       ELSE resolvedOutputs.value[1] = "cjs"

\* outputs[0] is undefined when the resolved outputs are an empty array, and
\* output.format then throws
configThrows(config) ==
    LET resolvedOutputs == resolveBuildOutputs(config.output, config.lib)
    IN /\ ~config.useInRenderer
       /\ resolvedOutputs.kind = "array"
       /\ Len(resolvedOutputs.value) = 0

configResolved ==
    /\ pc = "config"
    /\ \E config \in Configs :
        IF supported
        THEN UNCHANGED <<supported, warnings, format, pc, thrown>>
        ELSE IF configThrows(config)
        THEN /\ pc' = "crashed"
             /\ thrown' = [message |-> "TypeError: output is undefined",
                           chunk |-> ""]
             /\ UNCHANGED <<supported, warnings, format>>
        ELSE /\ warnings' = warnings \o configWarnings(config)
             /\ supported' = configSupported(supported, config)
             /\ \E fmt \in HostFormats(config) : format' = fmt
             /\ pc' = "bundle"
             /\ UNCHANGED thrown
    /\ UNCHANGED <<plugin, env, options, input,
                   rendered, output, emitted, idx, jobs, errors,
                   bytecodeChunkCount>>
    /\ UNCHANGED unitVars

(***************************************************************************)
(* The pipeline assembles the bundle and calls renderChunk for each chunk. *)
(***************************************************************************)
InputChunkKeys ==
    LET isChunk(f) == input.files[f].type = "chunk"
    IN SelectSeq(input.keys, isChunk)

hostBundle ==
    /\ pc = "bundle"
    /\ \E b \in Bundles :
        /\ input' = b
        /\ output' = b.files
        /\ rendered' = [f \in {g \in DOMAIN b.files : b.files[g].type = "chunk"}
                            |-> "pending"]
    /\ pc' = "render"
    /\ idx' = 1
    /\ UNCHANGED <<plugin, env, options, supported,
                   warnings, format, emitted, jobs, errors,
                   bytecodeChunkCount, thrown>>
    /\ UNCHANGED unitVars

\* renderChunk that leaves a chunk alone when there is nothing to protect
renderChunkResult_OnlyProtecting(isSupported, aliases, protected, chunk) ==
    IF isSupported /\ isBytecodeChunk(aliases, chunk.name)
                   /\ Len(protected) > 0
    THEN "transformed"
    ELSE "null"

\* renderChunk(code, chunk): "transformed" stands for the result of
\* transformCode(code, protectedStrings, !!sourcemap), whatever the list
\* protectedStrings holds, and "null" for null
renderChunkResult(isSupported, aliases, protected, chunk) ==
    IF isSupported /\ isBytecodeChunk(aliases, chunk.name)
    THEN "transformed"
    ELSE "null"

renderChunk ==
    /\ pc = "render"
    /\ LET f == InputChunkKeys[idx]
       IN rendered' = [rendered EXCEPT
                          ![f] = renderChunkResult(supported, chunkAliasList,
                                                   protectedStrings,
                                                   input.files[f])]
    /\ idx' = idx + 1
    /\ pc' = IF idx = Len(InputChunkKeys) THEN "generate" ELSE "render"
    /\ UNCHANGED <<plugin, env, options, supported,
                   warnings, format, input, output, emitted, jobs, errors,
                   bytecodeChunkCount, thrown>>
    /\ UNCHANGED unitVars

(***************************************************************************)
(* generateBundle(_, output)                                               *)
(***************************************************************************)
\* lines 144-147: the file names of the chunks selected for compilation
candidateKeys(aliases, bundle) ==
    LET selected(f) ==
            /\ bundle.files[f].type = "chunk"
            /\ isBytecodeChunk(aliases, bundle.files[f].name)
    IN SelectSeq(bundle.keys, selected)

\* line 153
bytecodeChunks == candidateKeys(chunkAliasList, input)

InSeq(s, v) == \E k \in 1..Len(s) : s[k] = v

\* lines 154-156: the base names of the candidates that are no entry
nonEntryChunksOf(aliases, bundle) ==
    LET keys == candidateKeys(aliases, bundle)
        nonEntry(f) == ~bundle.files[f].isEntry
        kept == SelectSeq(keys, nonEntry)
    IN [k \in 1..Len(kept) |-> basename(bundle.files[kept[k]].fileName)]

nonEntryChunks == nonEntryChunksOf(chunkAliasList, input)

\* the loader required as a file next to the chunk, whatever its directory
getBytecodeLoaderBlock_SameDir(chunkFileName) ==
    "require(\"./" \o bytecodeModuleLoader \o "\");"

\* lines 164-169
getBytecodeLoaderBlock(chunkFileName) ==
    "require(\""
        \o toRelativePath(bytecodeModuleLoader, normalizePath(chunkFileName))
        \o "\");"

\* lines 227-230: the code that replaces a compiled entry chunk
entryStub(name, chunkFileName) ==
    useStrict \o "\n" \o getBytecodeLoaderBlock(chunkFileName) \o "\n"
        \o "require(\"./" \o basename(name) \o "c" \o "\");" \o "\n"

\* idsToHandle kept as an array: push without looking for the id
AddAll_Push(ids, more) == ids \o more

\* new Set([...]) and idsToHandle.add(id): an id already in the Set is not
\* added again and keeps its place
RECURSIVE AddAll(_, _)
AddAll(ids, more) ==
    IF Len(more) = 0 THEN ids
    ELSE AddAll(IF InSeq(ids, more[1]) THEN ids ELSE Append(ids, more[1]),
                Tail(more))

\* this.getModuleInfo(moduleId)
getModuleInfo(info, moduleId) ==
    IF moduleId \in DOMAIN info THEN info[moduleId] ELSE NoInfo

\* lines 247-260: for (const moduleId of idsToHandle), a Set that grows while
\* it is iterated; k is the position of the iteration
RECURSIVE walk(_, _, _, _)
walk(idsToHandle, k, compiled, info) ==
    IF k > Len(idsToHandle) THEN FALSE
    ELSE IF InSeq(compiled, idsToHandle[k]) THEN TRUE
    ELSE LET moduleInfo == getModuleInfo(info, idsToHandle[k])
         IN IF moduleInfo.found /\ ~moduleInfo.isExternal
            THEN walk(AddAll(AddAll(idsToHandle, moduleInfo.importers),
                             moduleInfo.dynamicImporters),
                      k + 1, compiled, info)
            ELSE walk(idsToHandle, k + 1, compiled, info)

\* the walk looking only at the chunk's own imports and dynamicImports
hasBytecodeModule_Direct(chunk, compiled, info) ==
    \/ \E k \in 1..Len(chunk.imports) : InSeq(compiled, chunk.imports[k])
    \/ \E k \in 1..Len(chunk.dynamicImports) :
            InSeq(compiled, chunk.dynamicImports[k])

\* lines 241-260
hasBytecodeModule(chunk, compiled, info) ==
    walk(AddAll(AddAll(<<>>, chunk.imports), chunk.dynamicImports),
         1, compiled, info)

\* _code.replace(/("use strict";)|('use strict';)/, replacement): the
\* leftmost match is replaced, and the code is unchanged when there is none
replaceUseStrict(code, replacement) ==
    LET dq == indexOf(code, "\"use strict\";")
        sq == indexOf(code, "'use strict';")
        at == IF dq = 0 THEN sq
              ELSE IF sq = 0 THEN dq
              ELSE IF dq < sq THEN dq ELSE sq
    IN IF at = 0 THEN code
       ELSE SubSeq(code, 1, at - 1) \o replacement
                \o SubSeq(code, at + Len(useStrict), Len(code))

\* lines 262-267
injectLoader(code, chunkFileName) ==
    replaceUseStrict(code,
        useStrict \o "\n" \o getBytecodeLoaderBlock(chunkFileName))

\* the else branch run a second time on the code it produced
nonCandidateCode_Twice(chunk, code, compiled, info) ==
    IF chunk.isEntry /\ hasBytecodeModule(chunk, compiled, info)
    THEN injectLoader(injectLoader(code, chunk.fileName), chunk.fileName)
    ELSE code

\* lines 238-270: the code a chunk that is not compiled is left with
nonCandidateCode(chunk, code, compiled, info) ==
    IF chunk.isEntry /\ hasBytecodeModule(chunk, compiled, info)
    THEN injectLoader(code, chunk.fileName)
    ELSE code

\* the bytecode asset named by replacing nothing and appending ".jsc"
BytecodeAsset_DotJsc(name, bytecodeBuffer) ==
    [type |-> "asset", fileName |-> name \o ".jsc", source |-> bytecodeBuffer]

\* this.emitFile({type: "asset", fileName, source})
BytecodeAsset(name, bytecodeBuffer) ==
    [type |-> "asset", fileName |-> name \o "c", source |-> bytecodeBuffer]

\* the kept file holding the code as it was handed to the compiler
OriginalAsset_Rewritten(chunk) ==
    [type |-> "asset", fileName |-> "_" \o chunk.fileName,
     source |-> [text |-> rewriteRequires(chunk.code, nonEntryChunks)]]

\* lines 213-220: this.emitFile({fileName: "_" + chunk.fileName,
\* source: chunk.code})
OriginalAsset(chunk) ==
    [type |-> "asset", fileName |-> "_" \o chunk.fileName,
     source |-> [text |-> chunk.code]]

LoaderAsset ==
    [type |-> "asset", fileName |-> bytecodeModuleLoader,
     source |-> [text |-> getBytecodeLoaderCode]]

\* replaceOrDelete without the delete of line 234
replaceOrDelete_Keep(out, name) ==
    IF out[name].isEntry
    THEN [out EXCEPT ![name].code = entryStub(name, out[name].fileName)]
    ELSE out

\* lines 222-235: a compiled entry chunk becomes the stub, any other
\* compiled chunk leaves the bundle (delete output[chunk.fileName])
replaceOrDelete(out, name) ==
    IF out[name].isEntry
    THEN [out EXCEPT ![name].code = entryStub(name, out[name].fileName)]
    ELSE [f \in DOMAIN out \ {out[name].fileName} |-> out[f]]

\* lines 140-173
generateBundle ==
    /\ pc = "generate"
    /\ IF ~supported THEN pc' = "done"
       ELSE IF Len(bytecodeChunks) = 0 THEN pc' = "done"
       ELSE pc' = "map"
    /\ idx' = 1
    /\ bytecodeChunkCount' = 0
    /\ UNCHANGED <<plugin, env, options, supported,
                   warnings, format, input, rendered, output, emitted, jobs,
                   errors, thrown>>
    /\ UNCHANGED unitVars

\* lines 176-205 and 238-270: bundles.map calls the callback of the next
\* key; it runs until it returns, throws or reaches its await
callback ==
    /\ pc = "map"
    /\ LET name == input.keys[idx]
           chunk == output[name]
           code == rewriteRequires(chunk.code, nonEntryChunks)
       IN IF chunk.type # "chunk"
          THEN UNCHANGED <<output, jobs, errors>>
          ELSE IF InSeq(bytecodeChunks, name)
          THEN /\ \/ /\ jobs' = Append(jobs,
                            [name |-> name,
                             bytecodeBuffer |-> compileToBytecode(code)])
                     /\ UNCHANGED errors
                  \/ /\ Len(errors) < MaxFailures
                     /\ errors' = Append(errors, CompileError(name))
                     /\ UNCHANGED jobs
               /\ UNCHANGED output
          ELSE /\ output' = [output EXCEPT
                    ![name].code =
                        nonCandidateCode(chunk, code, bytecodeChunks, input.info)]
               /\ UNCHANGED <<jobs, errors>>
    /\ idx' = idx + 1
    /\ pc' = IF idx = Len(input.keys) THEN "drain" ELSE "map"
    /\ UNCHANGED <<plugin, env, options, supported,
                   warnings, format, input, rendered, emitted,
                   bytecodeChunkCount, thrown>>
    /\ UNCHANGED unitVars

\* lines 207-237: the callback first in the queue resumes after its await
resume ==
    /\ pc = "drain"
    /\ Len(jobs) > 0
    /\ LET name == Head(jobs).name
           chunk == output[name]
       IN /\ emitted' = emitted
                \o <<BytecodeAsset(name, Head(jobs).bytecodeBuffer)>>
                \o (IF ~removeBundleJS THEN <<OriginalAsset(chunk)>> ELSE <<>>)
          /\ output' = replaceOrDelete(output, name)
    /\ jobs' = Tail(jobs)
    /\ bytecodeChunkCount' = bytecodeChunkCount + 1
    /\ UNCHANGED <<plugin, env, options, supported,
                   warnings, format, input, rendered, pc, idx, errors, thrown>>
    /\ UNCHANGED unitVars

\* the loader emitted without looking for an asset of its name
hasLoaderAsset_Unchecked(bundle) == FALSE

\* _chunks.some(ass => ass.type === "asset" && ass.fileName === loader)
hasLoaderAsset(bundle) ==
    \E f \in DOMAIN bundle.files :
        /\ bundle.files[f].type = "asset"
        /\ bundle.files[f].fileName = bytecodeModuleLoader

\* lines 275-288 reached although a callback rejected, as they would be
\* after Promise.allSettled
emitLoader_IgnoringRejections ==
    /\ pc = "drain"
    /\ Len(jobs) = 0
    /\ emitted' = IF bytecodeChunkCount > 0 /\ ~hasLoaderAsset(input)
                  THEN Append(emitted, LoaderAsset)
                  ELSE emitted
    /\ pc' = "done"
    /\ UNCHANGED <<plugin, env, options, supported, warnings, format, input,
                   rendered, output, idx, jobs, errors, bytecodeChunkCount,
                   thrown>>
    /\ UNCHANGED unitVars

\* lines 275-288: every callback has returned; Promise.all resolves
emitLoader ==
    /\ pc = "drain"
    /\ Len(jobs) = 0
    /\ Len(errors) = 0
    /\ emitted' = IF bytecodeChunkCount > 0 /\ ~hasLoaderAsset(input)
                  THEN Append(emitted, LoaderAsset)
                  ELSE emitted
    /\ pc' = "done"
    /\ UNCHANGED <<plugin, env, options, supported,
                   warnings, format, input, rendered, output, idx, jobs,
                   errors, bytecodeChunkCount, thrown>>
    /\ UNCHANGED unitVars

\* a callback threw: Promise.all rejects with the first rejection, after the
\* callbacks suspended during bundles.map have resumed, and generateBundle
\* rejects with it
rejectBundle ==
    /\ pc = "drain"
    /\ Len(jobs) = 0
    /\ Len(errors) > 0
    /\ thrown' = errors[1]
    /\ pc' = "failed"
    /\ UNCHANGED <<plugin, env, options, supported,
                   warnings, format, input, rendered, output, emitted, idx,
                   jobs, errors, bytecodeChunkCount>>
    /\ UNCHANGED unitVars

Next ==
    \/ bytecodePlugin
    \/ configResolved
    \/ hostBundle
    \/ renderChunk
    \/ generateBundle
    \/ callback
    \/ resume
    \/ emitLoader
    \/ rejectBundle

Spec == Init /\ [][Next]_vars


(***************************************************************************)
(* The compiler module: the cache data of the VM, the flag hash patch and  *)
(* the module's cached buffer of the empty script.                         *)
(***************************************************************************)
FLAG_HASH_OFFSET == 12
SOURCE_HASH_OFFSET == 8

\* the compileToBytecode calls of one process
MaxCompiles == 3

\* the source texts handed to compileToBytecode
Sources == {"", "a", "b;"}

\* the flag hashes the VM may stamp on a compilation, four bytes each
VmFlagHashes == {<<17, 0, 0, 128>>, <<42, 1, 0, 0>>}

\* the four bytes of n, least significant first
toLittleEndian(n) ==
    <<n % 256, (n \div 256) % 256, (n \div 65536) % 256,
      (n \div 16777216) % 256>>

\* script.cachedData of new vm.Script(source, {produceCachedData: true}):
\* the header holds the source hash at offset 8 and the flag hash the VM
\* stamped at offset 12; payload stands for the bytes after the header
vmCachedData(source, flagHash) ==
    [kind |-> "buffer",
     bytes |-> <<192, 23, 222, 192>> \o <<1, 2, 3, 4>>
                 \o toLittleEndian(Len(source)) \o flagHash
                 \o toLittleEndian(Len(source)),
     payload |-> source]

\* buffer.subarray(start, end)
subarray(bytes, start, end) ==
    SubSeq(bytes, start + 1, IF end < Len(bytes) THEN end ELSE Len(bytes))

\* source.copy(target, targetStart): the bytes of target after the copy
copy(source, target, targetStart) ==
    [i \in 1..Len(target) |->
        IF i > targetStart /\ i <= targetStart + Len(source)
        THEN source[i - targetStart]
        ELSE target[i]]

\* setFlagHashHeader(bytecodeBuffer), dummy being the module's dummyBytecode
\* once it is set: the buffer after the call
setFlagHashHeader(bytecodeBuffer, dummy) ==
    IF dummy # Undefined /\ Len(dummy.bytes) > FLAG_HASH_OFFSET + 4
    THEN [bytecodeBuffer EXCEPT
            !.bytes = copy(subarray(dummy.bytes, FLAG_HASH_OFFSET,
                                    FLAG_HASH_OFFSET + 4),
                           @, FLAG_HASH_OFFSET)]
    ELSE bytecodeBuffer

\* getSourceHashHeader(bytecodeBuffer)
getSourceHashHeader(bytecodeBuffer) ==
    subarray(bytecodeBuffer.bytes, SOURCE_HASH_OFFSET, SOURCE_HASH_OFFSET + 4)

\* lines 185-191: dummyBytecode after setFlagHashHeader has looked at it;
\* vmDummy is what script.cachedData of the empty script is when it is
\* compiled (a buffer, or undefined when the VM made none)
ensureDummy(dummyNow, vmDummy) ==
    IF dummyNow = Undefined THEN vmDummy ELSE dummyNow

\* compileToBytecode running the patch before it looks at cachedData
dummyAfterCall_PatchFirst(cachedData, dummyNow, vmDummy) ==
    ensureDummy(dummyNow, vmDummy)

\* lines 163-170: dummyBytecode after one compileToBytecode call; the throw
\* of line 164 comes before setFlagHashHeader
dummyAfterCall(cachedData, dummyNow, vmDummy) ==
    IF cachedData = Undefined THEN dummyNow
    ELSE ensureDummy(dummyNow, vmDummy)

\* one compileToBytecode(code) call: the VM makes cache data for the wrapped
\* source, stamped with the flag hash of the moment, or makes none and the
\* call throws; a call that gets to the patch while dummyBytecode is not set
\* compiles the empty script, for which the VM makes cache data or none
compileToBytecodeCall ==
    /\ Len(buffers) < MaxCompiles
    /\ \E code \in Sources, produced \in BOOLEAN, dummyProduced \in BOOLEAN,
          stamp \in VmFlagHashes, dummyStamp \in VmFlagHashes :
        LET wrappedCode == wrapInModuleWrapper(code)
            cachedData == IF produced THEN vmCachedData(wrappedCode, stamp)
                          ELSE Undefined
            vmDummy == IF dummyProduced THEN vmCachedData("", dummyStamp)
                       ELSE Undefined
            dummy == dummyAfterCall(cachedData, dummyBytecode, vmDummy)
        IN /\ dummyBytecode' = dummy
           /\ buffers' = Append(buffers,
                 IF cachedData = Undefined
                 THEN [code |-> code, produced |-> produced, threw |-> TRUE,
                       stamped |-> <<>>, buffer |-> Undefined,
                       dummyCompiled |-> FALSE]
                 ELSE [code |-> code, produced |-> produced, threw |-> FALSE,
                       stamped |-> stamp,
                       buffer |-> setFlagHashHeader(cachedData, dummy),
                       dummyCompiled |-> dummyBytecode = Undefined])
    /\ UNCHANGED <<pluginVars, call, ret>>

NextCompiler == compileToBytecodeCall

SpecCompiler == Init /\ [][NextCompiler]_vars

(***************************************************************************)
(* The source transform.  Code is the syntax tree the parser hands to the  *)
(* plugins; a string is the sequence of its UTF-16 code units.             *)
(***************************************************************************)
StringLiteral(value) == [type |-> "StringLiteral", value |-> value]
\* the value of a numeric literal is held apart from the value of a string
\* literal, a number and a string being of different kinds
NumericLiteral(value) == [type |-> "NumericLiteral", numericValue |-> value]
Identifier(name) == [type |-> "Identifier", name |-> name]
TemplateLiteral(quasis, expressions) ==
    [type |-> "TemplateLiteral", quasis |-> quasis,
     expressions |-> expressions]
BinaryExpression(operator, left, right) ==
    [type |-> "BinaryExpression", operator |-> operator,
     left |-> left, right |-> right]
MemberExpression(object, property, computed) ==
    [type |-> "MemberExpression", object |-> object,
     property |-> property, computed |-> computed]
ObjectProperty(key, value, computed) ==
    [type |-> "ObjectProperty", key |-> key, value |-> value,
     computed |-> computed]
ObjectExpression(properties) ==
    [type |-> "ObjectExpression", properties |-> properties]
CallExpression(callee, arguments) ==
    [type |-> "CallExpression", callee |-> callee, arguments |-> arguments]
ArrayExpression(elements) ==
    [type |-> "ArrayExpression", elements |-> elements]
ExpressionStatement(expression) ==
    [type |-> "ExpressionStatement", expression |-> expression]

\* function (arr) { return String.fromCharCode(...arr) }
FromCharCodeFunction ==
    [type |-> "FunctionExpression", params |-> <<Identifier("arr")>>,
     body |-> "return String.fromCharCode(...arr)"]

IsHighSurrogate(unit) == unit >= 55296 /\ unit <= 56319
IsLowSurrogate(unit) == unit >= 56320 /\ unit <= 57343

\* Array.from(value): the string iterator yields one string per code
\* point, a surrogate pair as one string of two code units
RECURSIVE ArrayFrom(_)
ArrayFrom(value) ==
    IF Len(value) = 0 THEN <<>>
    ELSE IF /\ Len(value) >= 2
            /\ IsHighSurrogate(value[1])
            /\ IsLowSurrogate(value[2])
    THEN <<SubSeq(value, 1, 2)>> \o ArrayFrom(SubSeq(value, 3, Len(value)))
    ELSE <<SubSeq(value, 1, 1)>> \o ArrayFrom(Tail(value))

\* Array.from(value).map((s) => s.charCodeAt(0))
charCodes(value) ==
    LET strings == ArrayFrom(value)
    IN [i \in 1..Len(strings) |-> strings[i][1]]

\* lines 326-354
createFromCharCodeFunction(value) ==
    LET codes == charCodes(value)
        charCodeLiterals == [i \in 1..Len(codes) |-> NumericLiteral(codes[i])]
    IN CallExpression(FromCharCodeFunction,
                      <<ArrayExpression(charCodeLiterals)>>)

\* the positions the StringLiteral visitor leaves alone, told without the
\* computed flags
isSkippedLiteral_AnyKey(parent, key, index) ==
    \/ parent.type = "MemberExpression" /\ key = "property"
    \/ parent.type = "ObjectProperty" /\ key = "key"
    \/ /\ parent.type = "CallExpression"
       /\ parent.callee.type = "Identifier"
       /\ parent.callee.name = "require"
       /\ key = "arguments" /\ index = 1

\* lines 360-385: the node at parent[key] (parent[key][index] in a list) is
\* the property of a computed member access, the key of a property that is
\* not computed, or the first argument of a call of the identifier require
isSkippedLiteral(parent, key, index) ==
    \/ /\ parent.type = "MemberExpression"
       /\ key = "property"
       /\ parent.computed
    \/ /\ parent.type = "ObjectProperty"
       /\ key = "key"
       /\ ~parent.computed
    \/ /\ parent.type = "CallExpression"
       /\ parent.callee.type = "Identifier"
       /\ parent.callee.name = "require"
       /\ key = "arguments" /\ index = 1

\* lines 359-393: what the StringLiteral visitor leaves in the node's place
protectStringLiteral(node, parent, key, index, protected) ==
    IF isSkippedLiteral(parent, key, index) THEN node
    ELSE IF InSeq(protected, node.value)
    THEN createFromCharCodeFunction(node.value)
    ELSE node

\* lines 428-445: the concatenation built from quasis[i..] and
\* expressions[i..] onto result; Undefined stands for null
RECURSIVE concatFrom(_, _, _, _)
concatFrom(quasis, expressions, i, result) ==
    IF i > Len(quasis) THEN result
    ELSE LET cooked == quasis[i]
             withQuasi ==
                IF Len(cooked) > 0
                THEN (IF result # Undefined
                      THEN BinaryExpression("+", result, StringLiteral(cooked))
                      ELSE StringLiteral(cooked))
                ELSE result
             withExpr ==
                IF i <= Len(expressions)
                THEN (IF withQuasi # Undefined
                      THEN BinaryExpression("+", withQuasi, expressions[i])
                      ELSE expressions[i])
                ELSE withQuasi
         IN concatFrom(quasis, expressions, i + 1, withExpr)

\* lines 422-453: what the TemplateLiteral visitor puts in the node's place
templateLiteralToConcat(node) ==
    LET result == concatFrom(node.quasis, node.expressions, 1, Undefined)
    IN IF result # Undefined THEN result ELSE StringLiteral(<<>>)

\* babel.transformSync: one traversal with the visitors of the plugins
\* merged in plugin order.  A template literal is replaced by the first
\* plugin, so the TemplateLiteral visitor of the second (lines 394-407) is
\* not called for it; the node put in its place is visited in turn
RECURSIVE traverse(_, _, _, _, _)
RECURSIVE traverseList(_, _, _, _, _)
traverse(node, parent, key, index, opts) ==
    CASE node.type = "TemplateLiteral" ->
            traverse(templateLiteralToConcat(node), parent, key, index, opts)
      [] node.type = "StringLiteral" ->
            IF opts.protect
            THEN protectStringLiteral(node, parent, key, index,
                                      opts.protectedStrings)
            ELSE node
      [] node.type = "BinaryExpression" ->
            [node EXCEPT !.left = traverse(@, node, "left", 0, opts),
                         !.right = traverse(@, node, "right", 0, opts)]
      [] node.type = "MemberExpression" ->
            [node EXCEPT !.object = traverse(@, node, "object", 0, opts),
                         !.property = traverse(@, node, "property", 0, opts)]
      [] node.type = "ObjectExpression" ->
            [node EXCEPT !.properties =
                traverseList(@, node, "properties", 1, opts)]
      [] node.type = "ObjectProperty" ->
            [node EXCEPT !.key = traverse(@, node, "key", 0, opts),
                         !.value = traverse(@, node, "value", 0, opts)]
      [] node.type = "CallExpression" ->
            [node EXCEPT !.callee = traverse(@, node, "callee", 0, opts),
                         !.arguments =
                            traverseList(@, node, "arguments", 1, opts)]
      [] node.type = "ExpressionStatement" ->
            [node EXCEPT !.expression =
                traverse(@, node, "expression", 0, opts)]
      [] OTHER -> node

traverseList(nodes, parent, key, index, opts) ==
    IF index > Len(nodes) THEN <<>>
    ELSE <<traverse(nodes[index], parent, key, index, opts)>>
            \o traverseList(nodes, parent, key, index + 1, opts)

\* lines 462-490: the string protection plugin is pushed only for a list of
\* protected strings that is not empty
transformCode(code, protected) ==
    [code |-> traverse(code, [type |-> "Program"], "body", 1,
                       [protect |-> Len(protected) > 0,
                        protectedStrings |-> protected])]

(***************************************************************************)
(* The code handed to transformCode.                                       *)
(***************************************************************************)
MaxInterpolations == 2

\* values as the running program has them
StrV(s) == [string |-> s]
NumV(n) == [number |-> n]

InterpolationNames == <<"x", "y", "z">>
ScopeNames == {InterpolationNames[i] : i \in 1..MaxInterpolations}
Scopes == [ScopeNames -> {StrV(<<98>>), NumV(1), NumV(2)}]
NoScope == [n \in ScopeNames |-> NumV(1)]

\* the cooked text of a quasi: empty or "a"
Quasis == {<<>>, <<97>>}

\* `q1${x}q2${y}q3` for every choice of the quasis
Templates ==
    UNION {{TemplateLiteral(qs, [i \in 1..n |-> Identifier(InterpolationNames[i])]) :
                qs \in [1..(n + 1) -> Quasis]} : n \in 0..MaxInterpolations}

TemplateCalls ==
    {[fn |-> "transformCode", code |-> ExpressionStatement(tl),
      protectedStrings |-> <<>>, scope |-> s, position |-> "template",
      value |-> <<>>] : tl \in Templates, s \in Scopes}

\* "k", "ka", U+1F600 and "k" followed by U+1F600
LiteralValues ==
    {<<107>>, <<107, 97>>, <<55357, 56832>>, <<107, 55357, 56832>>}

ProtectedLists ==
    {<<>>, <<<<107>>>>, <<<<107, 97>>, <<55357, 56832>>>>,
     <<<<97>>, <<107, 55357, 56832>>>>}

\* a literal of value v: a string literal or a static template literal
Literal(v, asTemplate) ==
    IF asTemplate THEN TemplateLiteral(<<v>>, <<>>) ELSE StringLiteral(v)

\* the places a literal l may stand at
Placed(position, l) ==
    CASE position = "memberKey" ->
            MemberExpression(Identifier("obj"), l, TRUE)
      [] position = "memberObject" ->
            MemberExpression(l, Identifier("length"), FALSE)
      [] position = "indexedObject" ->
            MemberExpression(l, NumericLiteral(0), TRUE)
      [] position = "propertyKey" ->
            ObjectExpression(<<ObjectProperty(l, NumericLiteral(1), FALSE)>>)
      [] position = "computedKey" ->
            ObjectExpression(<<ObjectProperty(l, NumericLiteral(1), TRUE)>>)
      [] position = "propertyValue" ->
            ObjectExpression(<<ObjectProperty(Identifier("key"), l, FALSE)>>)
      [] position = "requireArg" ->
            CallExpression(Identifier("require"), <<l>>)
      [] position = "requireSecondArg" ->
            CallExpression(Identifier("require"), <<Identifier("x"), l>>)
      [] position = "callArg" ->
            CallExpression(Identifier("load"), <<l>>)
      [] position = "methodArg" ->
            CallExpression(MemberExpression(Identifier("module"),
                                            Identifier("require"), FALSE),
                           <<l>>)
      [] position = "operand" ->
            BinaryExpression("+", l, Identifier("x"))
      [] position = "statement" -> l

Positions ==
    {"memberKey", "memberObject", "indexedObject", "propertyKey",
     "computedKey", "propertyValue", "requireArg", "requireSecondArg",
     "callArg", "methodArg", "operand", "statement"}

\* a key that is not computed is written as a string literal only
LiteralCases ==
    {c \in Positions \X LiteralValues \X BOOLEAN \X ProtectedLists :
        ~(c[1] = "propertyKey" /\ c[3])}

LiteralCalls ==
    {[fn |-> "transformCode",
      code |-> ExpressionStatement(Placed(c[1], Literal(c[2], c[3]))),
      protectedStrings |-> c[4], scope |-> NoScope, position |-> c[1],
      value |-> c[2]] : c \in LiteralCases}

TransformCalls == TemplateCalls \cup LiteralCalls

InitTransform ==
    /\ InitPlugin
    /\ dummyBytecode = Undefined
    /\ buffers = <<>>
    /\ call \in TransformCalls
    /\ ret = Undefined

transformCodeCall ==
    /\ call.fn = "transformCode"
    /\ ret = Undefined
    /\ ret' = transformCode(call.code, call.protectedStrings)
    /\ UNCHANGED <<pluginVars, dummyBytecode, buffers, call>>

NextTransform == transformCodeCall

SpecTransform == InitTransform /\ [][NextTransform]_vars

(***************************************************************************)
(* buffer2Number and toRelativePath, called on their own.                  *)
(*                                                                         *)
(* A number of buffer2Number is written [hi, lo] and stands for            *)
(* hi * 65536 + lo with lo in 0..65535: the bitwise operators work on      *)
(* 32-bit two's complement integers, whose upper half hi is in             *)
(* -32768..32767, while an unsigned 32-bit integer has hi in 0..65535.     *)
(***************************************************************************)
Number32(hi, lo) == [hi |-> hi, lo |-> lo]

\* the bitwise or of two 16-bit halves
RECURSIVE Or16(_, _, _)
Or16(a, b, bits) ==
    IF bits = 0 THEN 0
    ELSE (IF a % 2 = 1 \/ b % 2 = 1 THEN 1 ELSE 0)
            + 2 * Or16(a \div 2, b \div 2, bits - 1)

ToUnsigned16(h) == IF h < 0 THEN h + 65536 ELSE h
ToSigned16(h) == IF h >= 32768 THEN h - 65536 ELSE h

\* a | b on 32-bit integers
BitOr(a, b) ==
    Number32(ToSigned16(Or16(ToUnsigned16(a.hi), ToUnsigned16(b.hi), 16)),
             Or16(a.lo, b.lo, 16))

\* byte << shift for the shifts 0, 8, 16 and 24, a 32-bit integer
ShiftLeft(byte, shift) ==
    CASE shift = 24 -> Number32(ToSigned16(byte * 256), 0)
      [] shift = 16 -> Number32(byte, 0)
      [] shift = 8 -> Number32(0, byte * 256)
      [] shift = 0 -> Number32(0, byte)

\* lines 213-220; buffer[i] of the code is buffer[i + 1] here
buffer2Number(buffer) ==
    LET ret0 == Number32(0, 0)
        ret1 == BitOr(ret0, ShiftLeft(buffer[4], 24))
        ret2 == BitOr(ret1, ShiftLeft(buffer[3], 16))
        ret3 == BitOr(ret2, ShiftLeft(buffer[2], 8))
    IN BitOr(ret3, ShiftLeft(buffer[1], 0))

\* the bytes a buffer may hold at each place
ByteSamples == {0, 1, 127, 128, 255}

BufferCalls ==
    {[fn |-> "buffer2Number", buffer |-> b] : b \in [1..4 -> ByteSamples]}

\* paths under one root, with and without names that begin with a dot
PathDirs == {"", "a/", ".h/", "a/b/", "a/.h/"}
PathFiles == {"l.cjs", "m.js", ".rc"}
Paths == {d \o f : d \in PathDirs, f \in PathFiles}

PathCalls ==
    {[fn |-> "toRelativePath", from |-> f, to |-> t] :
        f \in Paths, t \in Paths}

UtilCalls == BufferCalls \cup PathCalls

\* a call that returned value
Return(value) == [kind |-> "return", value |-> value]

InitUtils ==
    /\ InitPlugin
    /\ dummyBytecode = Undefined
    /\ buffers = <<>>
    /\ call \in UtilCalls
    /\ ret = Undefined

buffer2NumberCall ==
    /\ call.fn = "buffer2Number"
    /\ ret = Undefined
    /\ ret' = Return(buffer2Number(call.buffer))
    /\ UNCHANGED <<pluginVars, dummyBytecode, buffers, call>>

toRelativePathCall ==
    /\ call.fn = "toRelativePath"
    /\ ret = Undefined
    /\ ret' = Return(toRelativePath(call.from, call.to))
    /\ UNCHANGED <<pluginVars, dummyBytecode, buffers, call>>

NextUtils == buffer2NumberCall \/ toRelativePathCall

SpecUtils == InitUtils /\ [][NextUtils]_vars

(***************************************************************************)
(* The require rewrite of generateBundle on its own: the code of one chunk *)
(* and the base names of the non-entry candidates, in bundle order.        *)
(***************************************************************************)
MaxRequires == 2

\* base file names of chunks; one is a part of another (b.js of lib.js) and
\* one begins another (a.js begins a.jsx)
RewriteFiles == {"a.js", "a.jsx", "b.js", "lib.js"}

\* what the code of a chunk may require
RewriteTargets == RewriteFiles \cup {ExternalId}

\* the code of a chunk: the directive and one require statement per target
RewriteCode(targets) ==
    useStrict \o "\n"
        \o ConcatAll([k \in 1..Len(targets) |->
                        "require(\"" \o (IF targets[k] = ExternalId
                                         THEN targets[k]
                                         ELSE "./" \o targets[k]) \o "\")"],
                     ";\n")

\* nonEntryChunks: base names of distinct chunks, in the order of the bundle
NameLists ==
    {s \in UNION {[1..n -> RewriteFiles] : n \in 0..2} :
        \A i, j \in 1..Len(s) : i # j => s[i] # s[j]}

RewriteCalls ==
    {[fn |-> "rewriteRequires", targets |-> t, code |-> RewriteCode(t),
      names |-> n] :
        t \in UNION {[1..n -> RewriteTargets] : n \in 1..MaxRequires},
        n \in NameLists}

InitRewrite ==
    /\ InitPlugin
    /\ dummyBytecode = Undefined
    /\ buffers = <<>>
    /\ call \in RewriteCalls
    /\ ret = Undefined

\* lines 179-201 of one callback
rewriteRequiresCall ==
    /\ call.fn = "rewriteRequires"
    /\ ret = Undefined
    /\ ret' = Return(rewriteRequires(call.code, call.names))
    /\ UNCHANGED <<pluginVars, dummyBytecode, buffers, call>>

NextRewrite == rewriteRequiresCall

SpecRewrite == InitRewrite /\ [][NextRewrite]_vars

(***************************************************************************)
(* The reachability walk of generateBundle, one loop iteration at a time.  *)
(***************************************************************************)
\* the alias lists under which walks are started
WalkAliases == {<<"b">>, <<"main">>, <<"lib">>, <<"main", "b">>}

\* the walks generateBundle starts: for an entry chunk that is no candidate,
\* in a bundle that has candidates
WalkCalls ==
    {[fn |-> "walk", chunk |-> b.files[f],
      compiled |-> candidateKeys(a, b), info |-> b.info] :
        b \in Bundles, a \in WalkAliases, f \in ChunkFileSet}

StartedWalks ==
    {c \in WalkCalls :
        /\ c.chunk.isEntry
        /\ ~InSeq(c.compiled, c.chunk.fileName)
        /\ Len(c.compiled) > 0}

InitWalk ==
    /\ InitPlugin
    /\ dummyBytecode = Undefined
    /\ buffers = <<>>
    /\ call \in StartedWalks
    /\ ret = Undefined

\* lines 241-245: hasBytecodeModule = false and the Set of the chunk's
\* imports and dynamicImports; k is the position of the Set's iterator
walkBegin ==
    /\ call.fn = "walk"
    /\ ret = Undefined
    /\ ret' = [kind |-> "walk",
               idsToHandle |-> AddAll(AddAll(<<>>, call.chunk.imports),
                                      call.chunk.dynamicImports),
               k |-> 1, hasBytecodeModule |-> FALSE, done |-> FALSE]
    /\ UNCHANGED <<pluginVars, dummyBytecode, buffers, call>>

\* lines 247-260: one iteration of for (const moduleId of idsToHandle), or
\* the end of the loop when the iterator is exhausted
walkStep ==
    /\ call.fn = "walk"
    /\ ret # Undefined
    /\ ~ret.done
    /\ IF ret.k > Len(ret.idsToHandle)
       THEN ret' = [ret EXCEPT !.done = TRUE]
       ELSE LET moduleId == ret.idsToHandle[ret.k]
                moduleInfo == getModuleInfo(call.info, moduleId)
            IN IF InSeq(call.compiled, moduleId)
               THEN ret' = [ret EXCEPT !.hasBytecodeModule = TRUE,
                                       !.done = TRUE]
               ELSE IF moduleInfo.found /\ ~moduleInfo.isExternal
               THEN ret' = [ret EXCEPT
                        !.idsToHandle =
                            AddAll(AddAll(@, moduleInfo.importers),
                                   moduleInfo.dynamicImporters),
                        !.k = @ + 1]
               ELSE ret' = [ret EXCEPT !.k = @ + 1]
    /\ UNCHANGED <<pluginVars, dummyBytecode, buffers, call>>

NextWalk == walkBegin \/ walkStep

\* the loop is synchronous code: nothing can suspend it between iterations
SpecWalk == InitWalk /\ [][NextWalk]_vars /\ WF_vars(NextWalk)
(***************************************************************************)
(* Properties.                                                             *)
(***************************************************************************)
\* generateBundle has returned normally with the plugin enabled
Completed == plugin = "plugin" /\ supported /\ pc = "done"

InputChunks == {f \in DOMAIN input.files : input.files[f].type = "chunk"}

\* the selection the options ask for, read off the option as it was given
Selected(chunkName) ==
    LET a == options.chunkAlias
    IN \/ a.kind = "undefined"
       \/ a.kind = "string" /\ a.value = chunkName
       \/ a.kind = "array" /\ Len(a.value) = 0
       \/ a.kind = "array" /\ \E k \in 1..Len(a.value) : a.value[k] = chunkName

Candidates == {f \in InputChunks : Selected(input.files[f].name)}

EmittedNamed(fileName) ==
    {k \in 1..Len(emitted) : emitted[k].fileName = fileName}

BytecodeEmissions ==
    {k \in 1..Len(emitted) : "cachedData" \in DOMAIN emitted[k].source}

LoaderEmissions == EmittedNamed("bytecode-loader.cjs")

\* the modules a chunk requires
Targets(f) ==
    {input.files[f].imports[k] : k \in 1..Len(input.files[f].imports)}
    \cup {input.files[f].dynamicImports[k] :
            k \in 1..Len(input.files[f].dynamicImports)}

\* C1: after generateBundle completes, every candidate chunk has exactly one
\* emitted bytecode asset, named <file name>c, holding the compilation of the
\* chunk's code after the require rewrite, and no bytecode asset belongs to a
\* chunk that is no candidate
C1_BytecodeAssetPerCandidate ==
    Completed =>
        /\ \A f \in InputChunks :
            IF f \in Candidates
            THEN /\ Cardinality(EmittedNamed(f \o "c")) = 1
                 /\ \A k \in EmittedNamed(f \o "c") :
                        emitted[k].source =
                            compileToBytecode(
                                rewriteRequires(input.files[f].code,
                                                nonEntryChunks))
            ELSE EmittedNamed(f \o "c") = {}
        /\ \A k \in BytecodeEmissions :
            \E f \in Candidates : emitted[k].fileName = f \o "c"

C1_Witness ==
    /\ Completed
    /\ InputChunks \ Candidates # {}
    /\ \E f \in Candidates :
        rewriteRequires(input.files[f].code, nonEntryChunks)
            # input.files[f].code
    /\ Cardinality(BytecodeEmissions) >= 2

\* the require call of chunk f for target t with a c put after the name n
RewrittenCall(f, t, n) ==
    LET spec == RequireSpecifier(f, t)
        p == indexOf(spec, n)
    IN "require(\"" \o SubSeq(spec, 1, p + Len(n) - 1) \o "c"

\* C2: after the rewrite, in every chunk left in the bundle, every require
\* whose path contains the base file name of a non-entry candidate has that
\* name followed by c; stated for the requires of the chunk's own imports
\* that are non-entry candidates
C2_EveryRequireRewritten ==
    Completed =>
        \A f \in (InputChunks \ Candidates) \cap DOMAIN output :
            \A t \in Targets(f) \cap Candidates :
                ~input.files[t].isEntry =>
                    includes(output[f].code, RewrittenCall(f, t, basename(t)))

\* C3: entry A (no candidate) imports B (no candidate, no entry) and B
\* imports candidate C: A ends with exactly one loader require, and B is
\* unchanged but for its require of C, which names the artifact
C3_ChainGetsLoader ==
    (/\ Completed
     /\ input.files[MainFile].isEntry
     /\ MainFile \notin Candidates
     /\ Targets(MainFile) = {LibFile}
     /\ ~input.files[LibFile].isEntry
     /\ LibFile \notin Candidates
     /\ DepFile \in Targets(LibFile)
     /\ DepFile \in Candidates)
    => /\ Count(output[MainFile].code, "require(\"./bytecode-loader.cjs\");") = 1
       /\ includes(output[LibFile].code, "require(\"./b.jsc\")")
       /\ ~includes(output[LibFile].code, "bytecode-loader")

\* the loader require of a chunk, by the chunk's place in the output tree
ExpectedLoaderRequire(f) ==
    IF f = MainFile THEN "require(\"./bytecode-loader.cjs\");"
    ELSE "require(\"../bytecode-loader.cjs\");"

\* C4: when the walk of a non-candidate entry succeeds, its final code holds
\* exactly one loader require, right after the strict-mode directive that
\* opens the chunk and before everything else
C4_LoaderAfterDirective ==
    Completed =>
        \A f \in InputChunks \ Candidates :
            (/\ input.files[f].isEntry
             /\ hasBytecodeModule(input.files[f], bytecodeChunks, input.info))
            => LET before == rewriteRequires(input.files[f].code, nonEntryChunks)
                   after == output[f].code
                   head == "\"use strict\";\n" \o ExpectedLoaderRequire(f)
               IN /\ Count(after, ExpectedLoaderRequire(f)) = 1
                  /\ \/ startsWith(before, "\"use strict\";")
                     \/ startsWith(before, "'use strict';")
                  /\ after = head \o SubSeq(before, Len("\"use strict\";") + 1,
                                            Len(before))

\* the three lines of a compiled entry chunk, by the chunk's file
ExpectedStub(f) ==
    "\"use strict\";\n" \o ExpectedLoaderRequire(f) \o "\n"
        \o (CASE f = MainFile -> "require(\"./main.jsc\");"
              [] f = LibFile -> "require(\"./lib.jsc\");"
              [] f = DepFile -> "require(\"./b.jsc\");")
        \o "\n"

\* C5: a candidate entry chunk ends generateBundle with exactly the three
\* lines "use strict"; / require of the loader relative to the chunk's
\* directory / require of ./<base name>c
C5_EntryStub ==
    Completed =>
        \A f \in Candidates :
            input.files[f].isEntry =>
                f \in DOMAIN output /\ output[f].code = ExpectedStub(f)

C5_Witness ==
    /\ Completed
    /\ LibFile \in Candidates
    /\ input.files[LibFile].isEntry
    /\ MainFile \in Candidates

\* C6: after generateBundle completes, a chunk has left the bundle exactly
\* when it is a candidate that is no entry
C6_OnlyNonEntryCandidatesDeleted ==
    Completed =>
        \A f \in InputChunks :
            f \in DOMAIN output <=>
                ~(f \in Candidates /\ ~input.files[f].isEntry)

C6_Witness ==
    /\ Completed
    /\ \E f \in Candidates : ~input.files[f].isEntry
    /\ \E f \in Candidates : input.files[f].isEntry
    /\ InputChunks \ Candidates # {}

\* C7: the loader asset is emitted at most once, only after every chunk has
\* been finalized, and a completed generateBundle has emitted it exactly
\* when it compiled a chunk and the bundle held no asset of that name
C7_LoaderEmission ==
    /\ Cardinality(LoaderEmissions) <= 1
    /\ LoaderEmissions # {} =>
        /\ pc = "done"
        /\ Len(jobs) = 0
        /\ idx > Len(input.keys)
        /\ LoaderEmissions = {Len(emitted)}
        /\ \A f \in Candidates : EmittedNamed(f \o "c") # {}
    /\ (plugin = "plugin" /\ pc = "done") =>
        (LoaderEmissions # {} <=>
            /\ BytecodeEmissions # {}
            /\ ~\E f \in DOMAIN input.files :
                    /\ input.files[f].type = "asset"
                    /\ f = "bytecode-loader.cjs")

C7_Witness ==
    /\ pc = "done"
    /\ LoaderEmissions # {}
    /\ Cardinality(BytecodeEmissions) >= 2

\* the chunks whose compilation failed
Failed == {errors[k].chunk : k \in 1..Len(errors)}

C9_Selection ==
    (plugin = "plugin" /\ supported) =>
        \A f \in DOMAIN rendered :
            /\ rendered[f] # "pending" =>
                (rendered[f] = "transformed" <=> Selected(input.files[f].name))
            /\ pc = "done" =>
                (EmittedNamed(f \o "c") # {} <=> Selected(input.files[f].name))

C9_Witness ==
    /\ Completed
    /\ options.chunkAlias.kind = "string"
    /\ Candidates # {}
    /\ InputChunks \ Candidates # {}

\* C10: outside production bytecodePlugin returns no plugin, and for an
\* output whose format is not cjs renderChunk returns null for every chunk
\* and generateBundle changes, emits and deletes nothing
C10_InertUnlessProductionCjs ==
    /\ env \notin {"", "production"} => plugin = "null"
    /\ (plugin = "plugin" /\ format \notin {"", "cjs"}) =>
        /\ \A f \in DOMAIN rendered : rendered[f] \in {"pending", "null"}
        /\ emitted = <<>>
        /\ output = input.files


\* C11: with the plugin supported, renderChunk hands a chunk to transformCode
\* exactly when the chunk is a candidate, with or without protected strings,
\* and every chunk that has a bytecode asset was transformed when rendered
C11_CompiledWasTransformed ==
    (plugin = "plugin" /\ supported) =>
        /\ \A f \in DOMAIN rendered :
            rendered[f] # "pending" =>
                (rendered[f] = "transformed" <=> f \in Candidates)
        /\ \A k \in BytecodeEmissions :
            \E f \in DOMAIN rendered :
                /\ emitted[k].fileName = f \o "c"
                /\ rendered[f] = "transformed"

C11_Witness ==
    /\ Completed
    /\ Len(protectedStrings) = 0
    /\ BytecodeEmissions # {}
    /\ \E f \in DOMAIN rendered : rendered[f] = "null"

\* the flag-hash field of a buffer
FlagHashOf(buffer) ==
    subarray(buffer.bytes, FLAG_HASH_OFFSET, FLAG_HASH_OFFSET + 4)

Returned == {i \in 1..Len(buffers) : ~buffers[i].threw}

\* C12: within one process, the flag-hash field of every buffer that
\* compileToBytecode returned equals the flag-hash field of what
\* compileToBytecode("") returned, whatever the VM stamped on each of them,
\* and the patch changes no other byte
C12_FlagHashEqual ==
    \A i \in Returned :
        /\ \A j \in Returned :
            buffers[j].code = "" =>
                FlagHashOf(buffers[i].buffer) = FlagHashOf(buffers[j].buffer)
        /\ dummyBytecode # Undefined =>
            FlagHashOf(buffers[i].buffer) = FlagHashOf(dummyBytecode)
        /\ LET made == vmCachedData(wrapInModuleWrapper(buffers[i].code),
                                    buffers[i].stamped)
           IN /\ Len(buffers[i].buffer.bytes) = Len(made.bytes)
              /\ \A k \in 1..Len(made.bytes) :
                    (k <= FLAG_HASH_OFFSET \/ k > FLAG_HASH_OFFSET + 4) =>
                        buffers[i].buffer.bytes[k] = made.bytes[k]
              /\ buffers[i].buffer.payload = made.payload

(***************************************************************************)
(* The meaning of the code before and after the transform.                 *)
(***************************************************************************)
\* the decimal digits of a natural number, as code units
RECURSIVE Digits(_)
Digits(n) ==
    IF n < 10 THEN <<48 + n>> ELSE Digits(n \div 10) \o <<48 + (n % 10)>>

IsString(value) == "string" \in DOMAIN value

ToStringValue(value) ==
    IF IsString(value) THEN value.string ELSE Digits(value.number)

\* a + b: concatenation once either operand is a string, addition otherwise
Plus(a, b) ==
    IF IsString(a) \/ IsString(b)
    THEN StrV(ToStringValue(a) \o ToStringValue(b))
    ELSE NumV(a.number + b.number)

\* the call the string protection emits
Rewritten(node) ==
    /\ node.type = "CallExpression"
    /\ node.callee = FromCharCodeFunction

\* String.fromCharCode(...arr) for the array of numeric literals
FromCharCode(elements) ==
    [i \in 1..Len(elements) |-> elements[i].numericValue % 65536]

RECURSIVE Eval(_, _)
RECURSIVE TemplateValue(_, _, _)
Eval(node, scope) ==
    CASE node.type = "StringLiteral" -> StrV(node.value)
      [] node.type = "NumericLiteral" -> NumV(node.numericValue)
      [] node.type = "Identifier" -> scope[node.name]
      [] node.type = "BinaryExpression" ->
            Plus(Eval(node.left, scope), Eval(node.right, scope))
      [] node.type = "TemplateLiteral" -> StrV(TemplateValue(node, 1, scope))
      [] node.type = "CallExpression" ->
            StrV(FromCharCode(node.arguments[1].elements))

\* the quasis and the interpolations, each turned into a string, in order
TemplateValue(node, i, scope) ==
    IF i > Len(node.quasis) THEN <<>>
    ELSE node.quasis[i]
            \o (IF i <= Len(node.expressions)
                THEN ToStringValue(Eval(node.expressions[i], scope))
                ELSE <<>>)
            \o TemplateValue(node, i + 1, scope)

\* the identifiers read while the expression is evaluated, in order
RECURSIVE Reads(_)
RECURSIVE ReadsOfList(_)
Reads(node) ==
    CASE node.type = "Identifier" -> <<node.name>>
      [] node.type = "BinaryExpression" ->
            Reads(node.left) \o Reads(node.right)
      [] node.type = "TemplateLiteral" -> ReadsOfList(node.expressions)
      [] OTHER -> <<>>

ReadsOfList(nodes) ==
    IF Len(nodes) = 0 THEN <<>>
    ELSE Reads(nodes[1]) \o ReadsOfList(Tail(nodes))

\* the node standing where the literal of the call stood
At(tree, position) ==
    CASE position = "memberKey" -> tree.property
      [] position \in {"memberObject", "indexedObject"} -> tree.object
      [] position \in {"propertyKey", "computedKey"} -> tree.properties[1].key
      [] position = "propertyValue" -> tree.properties[1].value
      [] position \in {"requireArg", "callArg", "methodArg"} ->
            tree.arguments[1]
      [] position = "requireSecondArg" -> tree.arguments[2]
      [] position = "operand" -> tree.left
      [] position = "statement" -> tree

\* C13: the expression put in the place of a template literal evaluates to
\* the same string as the template literal, whatever the values of the
\* interpolations, and reads the interpolations in the same order
C13_TemplateEquivalent ==
    (ret # Undefined /\ call.position = "template") =>
        /\ Eval(ret.code.expression, call.scope)
                = Eval(call.code.expression, call.scope)
        /\ Reads(ret.code.expression) = Reads(call.code.expression)

\* C14: the array handed to the emitted function holds the UTF-16 code
\* units of the protected string, in order, and the emitted call evaluates
\* to the string
C14_CodeUnits ==
    (ret # Undefined /\ call.position \in Positions) =>
        LET out == At(ret.code.expression, call.position)
        IN Rewritten(out) =>
            /\ FromCharCode(out.arguments[1].elements) = call.value
            /\ Len(out.arguments[1].elements) = Len(call.value)
            /\ Eval(out, call.scope) = StrV(call.value)

SkippedPositions == {"memberKey", "propertyKey", "requireArg"}

\* C15: a string literal that is the key of a computed member access, a
\* property key that is not computed or the first argument of require(...)
\* is left as it is even when its value is protected; at every other place
\* a literal of a protected value is replaced by the emitted call
C15_SkippedPositions ==
    (ret # Undefined /\ call.position \in Positions) =>
        LET out == At(ret.code.expression, call.position)
        IN IF call.position \in SkippedPositions
           THEN out = StringLiteral(call.value)
           ELSE IF InSeq(call.protectedStrings, call.value)
           THEN Rewritten(out)
           ELSE out = StringLiteral(call.value)

C15_Witness ==
    /\ ret # Undefined
    /\ call.position = "requireArg"
    /\ InSeq(call.protectedStrings, call.value)
    /\ At(ret.code.expression, call.position) = StringLiteral(call.value)

\* the unsigned 32-bit integer a buffer of four bytes encodes, least
\* significant byte first
Encoded(buffer) ==
    Number32(buffer[4] * 256 + buffer[3], buffer[2] * 256 + buffer[1])

\* C16: buffer2Number of the four-byte little-endian encoding of n is n,
\* for every n from 0 to 2^32 - 1
C16_RoundTrip ==
    (call.fn = "buffer2Number" /\ ret # Undefined) =>
        ret.value = Encoded(call.buffer)

\* C17: toRelativePath returns a string that begins with ./ or ../
C17_RelativeSpecifier ==
    (call.fn = "toRelativePath" /\ ret # Undefined) =>
        startsWith(ret.value, "./") \/ startsWith(ret.value, "../")

\* the emitted assets named _<file name of chunk f>
OriginalEmissions(f) == EmittedNamed("_" \o f)

\* C18: after generateBundle completes, every candidate chunk has an emitted
\* asset named _<chunk file name> exactly when removeBundleJS is false; the
\* asset is emitted once and holds the chunk's code as the bundle held it,
\* before the require rewrite and before compilation; with removeBundleJS
\* left out of the options no such asset is emitted
C18_OriginalKept ==
    Completed =>
        /\ \A f \in Candidates :
            /\ OriginalEmissions(f) # {} <=>
                (options.removeBundleJS.kind = "boolean"
                    /\ ~options.removeBundleJS.value)
            /\ Cardinality(OriginalEmissions(f)) <= 1
            /\ \A k \in OriginalEmissions(f) :
                /\ emitted[k].type = "asset"
                /\ emitted[k].source = [text |-> input.files[f].code]
        /\ options.removeBundleJS.kind = "undefined" =>
            \A f \in InputChunks : OriginalEmissions(f) = {}
        /\ \A f \in InputChunks \ Candidates : OriginalEmissions(f) = {}

C18_Witness ==
    /\ Completed
    /\ ~removeBundleJS
    /\ InputChunks \ Candidates # {}
    /\ \E f \in Candidates :
        /\ OriginalEmissions(f) # {}
        /\ rewriteRequires(input.files[f].code, nonEntryChunks)
            # input.files[f].code

\* configResolved has returned and left the plugin disabled
Disabled ==
    /\ plugin = "plugin"
    /\ pc \notin {"load", "config", "crashed"}
    /\ ~supported

\* C19: whenever configResolved finds the output format unsupported (a
\* resolved format other than cjs, or a renderer build), the build goes on
\* with the plugin disabled and a warning has been given to the operator
C19_WarnedWhenDisabled ==
    Disabled =>
        /\ Len(warnings) > 0
        /\ pc # "failed"
        /\ emitted = <<>>

Elements(s) == {s[k] : k \in 1..Len(s)}

\* T holds the importers and dynamicImporters of each of its members whose
\* module info exists and is not external
ClosedUnderImporters(T) ==
    \A m \in T :
        (m \in DOMAIN input.info /\ input.info[m].found
            /\ ~input.info[m].isExternal)
        => Elements(input.info[m].importers)
            \cup Elements(input.info[m].dynamicImporters) \subseteq T

\* the least set that holds the imports and dynamicImports of chunk f and is
\* closed under importers
Reached(f) ==
    LET seeds == Targets(f)
        closed == {T \in SUBSET ModuleIds :
                      seeds \subseteq T /\ ClosedUnderImporters(T)}
    IN {m \in ModuleIds : \A T \in closed : m \in T}

WalkHits(f) == Reached(f) \cap Elements(bytecodeChunks) # {}

NonCandidateEntries ==
    {f \in InputChunks \ Candidates : input.files[f].isEntry}

\* the walk of chunk f reported a hit: the chunk was left with the loader
\* require put after its directive
LeftWithLoader(f) ==
    output[f].code =
        injectLoader(rewriteRequires(input.files[f].code, nonEntryChunks),
                     f)

LeftWithoutLoader(f) ==
    output[f].code = rewriteRequires(input.files[f].code, nonEntryChunks)

\* C20: for an entry chunk that is no candidate the walk reports a hit
\* exactly when a bytecode chunk file name is in the least set that holds
\* the chunk's imports and dynamicImports and is closed under the importers
\* and dynamicImporters of its members whose module info exists and is not
\* external; the walk leaves the module info as it was
C20_WalkIsClosure ==
    /\ [](Completed =>
            \A f \in NonCandidateEntries :
                IF WalkHits(f) THEN LeftWithLoader(f)
                ELSE LeftWithoutLoader(f))
    /\ [][pc = "map" => input' = input]_vars

C20_Witness ==
    /\ Completed
    /\ \E f \in NonCandidateEntries :
        /\ WalkHits(f)
        /\ Targets(f) \cap Elements(bytecodeChunks) = {}
        /\ LeftWithLoader(f)
        /\ ~LeftWithoutLoader(f)
    /\ \E f \in NonCandidateEntries : ~WalkHits(f) /\ LeftWithoutLoader(f)

(***************************************************************************)
(* Properties of the concurrent finalize, the rewrite and the walk.        *)
(***************************************************************************)
\* generateBundle is past its early returns
Finalizing ==
    /\ plugin = "plugin"
    /\ supported
    /\ pc \in {"map", "drain", "done", "failed"}
    /\ Len(bytecodeChunks) > 0

\* the keys whose callback bundles.map has called
Started == {input.keys[k] : k \in 1..(idx - 1)}

Suspended == {jobs[k].name : k \in 1..Len(jobs)}

\* 1 when the condition holds, else 0
Indicator(condition) == IF condition THEN 1 ELSE 0

\* the code the else branch of the callback leaves a chunk with
FinalCode(f) ==
    LET code == rewriteRequires(input.files[f].code, nonEntryChunks)
    IN IF input.files[f].isEntry /\ WalkHits(f)
       THEN injectLoader(code, f)
       ELSE code

\* C21: while generateBundle finalizes the chunks, every chunk whose
\* callback was started is finalized exactly once and no other chunk is
\* touched: a candidate is suspended at its await, has failed or has its
\* one bytecode asset, a chunk that is no candidate holds the code of one
\* run of the else branch, the counter equals the number of bytecode assets
\* emitted, and at the end every key was started and the counter equals the
\* number of candidates
C21_FinalizedOnce ==
    Finalizing =>
        /\ idx \in 1..(Len(input.keys) + 1)
        /\ \A f \in Candidates :
            /\ Cardinality(EmittedNamed(f \o "c"))
                + Indicator(f \in Suspended) + Indicator(f \in Failed)
                    = Indicator(f \in Started)
            /\ (EmittedNamed(f \o "c") = {}) =>
                (f \in DOMAIN output /\ output[f] = input.files[f])
        /\ \A f \in InputChunks \ Candidates :
            /\ f \in DOMAIN output
            /\ output[f].code =
                IF f \in Started THEN FinalCode(f) ELSE input.files[f].code
        /\ bytecodeChunkCount = Cardinality(BytecodeEmissions)
        /\ Len(jobs) = Cardinality(Suspended)
        /\ pc = "done" =>
            /\ Started = {input.keys[k] : k \in 1..Len(input.keys)}
            /\ bytecodeChunkCount = Cardinality(Candidates)

C21_Witness ==
    /\ Finalizing
    /\ pc = "done"
    /\ bytecodeChunkCount >= 2
    /\ DOMAIN output # DOMAIN input.files
    /\ \E f \in InputChunks \ Candidates :
        FinalCode(f) # input.files[f].code

\* the text before position i of s ends with one of the names
EndsWithName(s, i, names) ==
    \E k \in 1..Len(names) :
        StartsWithAt(s, i - Len(names[k]), names[k])

\* after is before with single characters c put in, each directly after a
\* name and no two of them next to each other: i and j are the positions
\* compared next, last is the position in after of the c put in last
RECURSIVE OnlyInserted(_, _, _, _, _, _)
OnlyInserted(after, before, names, i, j, last) ==
    IF i > Len(after) THEN j > Len(before)
    ELSE IF j <= Len(before) /\ CharAt(after, i) = CharAt(before, j)
    THEN OnlyInserted(after, before, names, i + 1, j + 1, last)
    ELSE /\ CharAt(after, i) = "c"
         /\ EndsWithName(after, i, names)
         /\ last # i - 1
         /\ OnlyInserted(after, before, names, i + 1, j, i)

Reversed(s) == [k \in 1..Len(s) |-> s[Len(s) + 1 - k]]

\* the rewrite has been applied to the code of a chunk
Rewrote == call.fn = "rewriteRequires" /\ ret # Undefined

\* C22: the rewrite changes a chunk's code only by putting one c directly
\* after a matched chunk file name: taking the inserted characters out gives
\* the original code, no name gets a second c, and the result is the same
\* whatever the order in which the bundle lists the chunks
C22_RewriteFrame ==
    Rewrote =>
        /\ OnlyInserted(ret.value, call.code, call.names, 1, 1, 0)
        /\ ret.value = rewriteRequires(call.code, Reversed(call.names))

Walking == call.fn = "walk" /\ ret # Undefined

\* the ids the loop has handled so far, in order
Handled ==
    SubSeq(ret.idsToHandle, 1,
           IF ret.done /\ ret.hasBytecodeModule THEN ret.k ELSE ret.k - 1)

WalkDone == Walking /\ ret.done

\* C23: the walk ends on every import graph, cycles of static and dynamic
\* imports included, and handles no module id twice: the ids it has handled
\* are distinct ids of the graph, and the walk that ended gave the answer of
\* hasBytecodeModule
C23_WalkTerminates ==
    /\ [](Walking =>
            /\ \A i, j \in 1..Len(ret.idsToHandle) :
                i # j => ret.idsToHandle[i] # ret.idsToHandle[j]
            /\ Elements(ret.idsToHandle) \subseteq ModuleIds
            /\ Len(Handled) <= Cardinality(ModuleIds)
            /\ ret.done =>
                ret.hasBytecodeModule =
                    hasBytecodeModule(call.chunk, call.compiled, call.info))
    /\ <>WalkDone

\* a walk that ran to the end of a graph in which two handled modules import
\* each other, one statically and one dynamically
C23_Witness ==
    /\ WalkDone
    /\ ~ret.hasBytecodeModule
    /\ Len(Handled) >= 2
    /\ \E m, n \in Elements(Handled) :
        /\ m # n
        /\ m \in Elements(getModuleInfo(call.info, n).importers)
        /\ n \in Elements(getModuleInfo(call.info, m).dynamicImporters)

\* the calls that compiled the empty reference script
DummyCompilations == {i \in 1..Len(buffers) : buffers[i].dummyCompiled}

\* C24: across the compileToBytecode calls of one process the empty
\* reference script is compiled at most once, by the first call that gets to
\* the patch
C24_DummyCompiledOnce ==
    /\ Cardinality(DummyCompilations) <= 1
    /\ \A i \in DummyCompilations : \A j \in 1..(i - 1) : buffers[j].threw

Threw == {i \in 1..Len(buffers) : buffers[i].threw}

\* the step is a compileToBytecode call that threw
ThrowingCall ==
    /\ Len(buffers') = Len(buffers) + 1
    /\ buffers'[Len(buffers')].threw

\* C25: a compileToBytecode call throws and returns no buffer exactly when
\* the VM made no cache data for the wrapped source; such a call does not
\* run the flag-hash patch and leaves the cached reference buffer as it was
C25_ThrowsWithoutCacheData ==
    /\ [](\A i \in 1..Len(buffers) :
            /\ buffers[i].threw <=> ~buffers[i].produced
            /\ buffers[i].threw <=> buffers[i].buffer = Undefined
            /\ buffers[i].threw => ~buffers[i].dummyCompiled)
    /\ [][ThrowingCall => dummyBytecode' = dummyBytecode]_vars

C25_Witness ==
    /\ Len(buffers) = 3
    /\ buffers[1].threw
    /\ dummyBytecode # Undefined
    /\ ~buffers[2].threw
    /\ buffers[3].threw

\* the requires of chunk f that the rewrite has to leave alone: those of an
\* external module, of an entry chunk and of a chunk that is no candidate
KeptTargets(f) ==
    {t \in Targets(f) :
        \/ t \notin InputChunks
        \/ t \notin Candidates
        \/ input.files[t].isEntry}

\* C26: the rewrite appends c only to require targets that name the file of
\* a candidate chunk that is no entry: in every chunk left in the bundle the
\* require of an external module, of an entry chunk or of a chunk that is
\* no candidate is still there as it was, so no require names a bytecode
\* asset that is not emitted
C26_OnlyCompiledTargetsRewritten ==
    (Finalizing /\ pc = "done") =>
        \A f \in InputChunks \ Candidates :
            \A t \in KeptTargets(f) :
                /\ includes(output[f].code, RequireCall(f, t))
                /\ ~includes(output[f].code,
                             "require(\"" \o RequireSpecifier(f, t) \o "c\")")

\* position of the last occurrence of t in s that starts at or before i
RECURSIVE LastIndexOfBefore(_, _, _)
LastIndexOfBefore(s, t, i) ==
    IF i < 1 THEN 0
    ELSE IF StartsWithAt(s, i, t) THEN i
    ELSE LastIndexOfBefore(s, t, i - 1)

\* the segments of a path with every ".." taken off together with the
\* segment before it
RECURSIVE Resolved(_, _)
Resolved(done, segs) ==
    IF Len(segs) = 0 THEN done
    ELSE IF segs[1] = ".." /\ Len(done) > 0
    THEN Resolved(SubSeq(done, 1, Len(done) - 1), Tail(segs))
    ELSE Resolved(Append(done, segs[1]), Tail(segs))

\* the file a relative specifier names when required from a file in dir
ResolveFrom(dir, specifier) ==
    Join(Resolved(<<>>, PathSegments(Split(dir \o "/" \o specifier, "/"))),
         "/")

\* the places in code where the loader's file name stands
LoaderMentions(code) ==
    {p \in 1..Len(code) : StartsWithAt(code, p, bytecodeModuleLoader)}

\* the specifier of the require statement around the mention at p, "" when
\* the mention is not the end of the argument of a require statement
LoaderSpecifier(code, p) ==
    LET q == LastIndexOfBefore(code, "require(\"", p)
        end == p + Len(bytecodeModuleLoader)
    IN IF q > 0 /\ StartsWithAt(code, end, "\");")
       THEN SubSeq(code, q + Len("require(\""), end - 1)
       ELSE ""

OutputChunks == {f \in DOMAIN output : output[f].type = "chunk"}

\* the assets of the final output: those the bundle held and those emitted
FinalAssets ==
    {f \in DOMAIN output : output[f].type = "asset"}
        \cup {emitted[k].fileName : k \in 1..Len(emitted)}

\* C27: after generateBundle completes, every loader require found in a
\* chunk of the output, in the stub of a compiled entry or put into an entry
\* that is not compiled, is a relative require that names, from the chunk's
\* own directory, the file bytecode-loader.cjs, and the final output holds
\* an asset of that name
C27_LoaderRequireResolves ==
    Completed =>
        \A f \in OutputChunks :
            \A p \in LoaderMentions(output[f].code) :
                LET specifier == LoaderSpecifier(output[f].code, p)
                IN /\ \/ startsWith(specifier, "./")
                      \/ startsWith(specifier, "../")
                   /\ ResolveFrom(dirname(f), specifier) = bytecodeModuleLoader
                   /\ bytecodeModuleLoader \in FinalAssets

C27_Witness ==
    /\ Completed
    /\ LoaderEmissions # {}
    /\ \E f \in OutputChunks \cap Candidates :
        /\ dirname(f) # "."
        /\ LoaderMentions(output[f].code) # {}
    /\ \E f \in OutputChunks \ Candidates :
        LoaderMentions(output[f].code) # {}
====
